---- MODULE Spec2Model ----
\* Model of forge/build.py: the Builder pipeline (prepare -> build), its path
\* properties and the archive unpacker, for the three builder variants.
EXTENDS Integers, Sequences, FiniteSets, TLC

VARIABLES
    cfg,        \* per builder: variant, package record (name, version, url), target tag
    patches,    \* number of *.patch files in the recipe's patches directory
    archive,    \* member paths of the upstream source archive, one per chunk
    paths,      \* per builder: the last evaluated source_file_path / build_path
    srcFiles,   \* downloads/: path -> file (exists, chunks on disk, open writers)
    trees,      \* build/: path -> directory (isdir, files)
    dist,       \* dist/: tags of the wheels produced
    pc,         \* per builder: position in prepare()/build()
    stages,     \* per builder: stages invoked in the current run, in order
    calls,      \* per builder: cross_venv.run invocations of the current run
    cached,     \* per builder: result of source_file_path.is_file() in prepare()
    removed,    \* per builder: unpack_source() took the rmtree branch
    off,        \* per builder: chunks written by the current download
    idx         \* per builder: patch files applied so far

vars == <<cfg, patches, archive, paths, srcFiles, trees, dist, pc, stages,
          calls, cached, removed, off, idx>>

----------------------------------------------------------------------------
\* Bounds

MaxPatches == 2
MaxMembers == 2
MaxLen == 3
MaxNameLen == 3
MaxUrlSegs == 2

Builders == {1, 2}
Variants == {"simple", "cmake", "python"}
Tags == {"ios_arm64", "ios_x86_64"}
TagOf == <<"ios_arm64", "ios_x86_64">>

Seqs(S, n) == UNION {[1..k -> S] : k \in 0..n}

Range(s) == {s[i] : i \in 1..Len(s)}

----------------------------------------------------------------------------
\* Strings are sequences of one-character strings.

\* Index of the first occurrence of sep in s, 0 when there is none.
Find(s, sep) ==
    IF \E i \in 1..Len(s) : s[i] = sep
    THEN CHOOSE i \in 1..Len(s) : s[i] = sep /\ \A j \in 1..(i-1) : s[j] # sep
    ELSE 0

\* str.split(sep, maxsplit); maxsplit = -1 splits at every separator.
RECURSIVE split(_, _, _)
split(s, sep, maxsplit) ==
    LET i == Find(s, sep)
    IN IF maxsplit = 0 \/ i = 0
       THEN <<s>>
       ELSE <<SubSeq(s, 1, i-1)>> \o split(SubSeq(s, i+1, Len(s)), sep, maxsplit-1)

\* pathlib's "/" operator on a relative component: an empty component adds nothing.
PathJoin(p, c) == IF c = <<>> THEN p ELSE Append(p, c)

SimpleSourceFilePath(c) ==
    LET parts == split(c.url, "/", -1)
        filename == parts[Len(parts)]
    IN PathJoin(<<"cwd", "downloads">>, filename)

SimpleBuildPath(c) ==
    PathJoin(PathJoin(PathJoin(<<"cwd", "build">>, c.name), c.version), <<c.tag>>)

PythonSourceFilePath(c) ==
    PathJoin(<<"cwd", "downloads">>, c.name \o <<"-">> \o c.version \o <<".tar.gz">>)

PythonBuildPath(c) ==
    PathJoin(PathJoin(<<"cwd", "build">>, c.name), c.version)

\* CMakePackageBuilder inherits both properties from SimplePackageBuilder.
source_file_path(c) ==
    IF c.variant = "python" THEN PythonSourceFilePath(c) ELSE SimpleSourceFilePath(c)

build_path(c) ==
    IF c.variant = "python" THEN PythonBuildPath(c) ELSE SimpleBuildPath(c)

NoPaths == [src |-> <<>>, build |-> <<>>]

EvalPaths(c) == [src |-> source_file_path(c), build |-> build_path(c)]

----------------------------------------------------------------------------
\* Archive unpacking

membersLast(tf, strip) ==
    LET parts(i) == split(tf[i], "/", strip)
        F[i \in 0..Len(tf)] ==
            IF i = 0 THEN <<>>
            ELSE Append(F[i-1], parts(i)[Len(parts(i))])
    IN F[Len(tf)]

\* The generator members(tf, strip): the equivalent of --strip-components.
members(tf, strip) ==
    LET parts(i) == split(tf[i], "/", strip)
        F[i \in 0..Len(tf)] ==
            IF i = 0 THEN <<>>
            ELSE IF Len(parts(i)) >= strip + 1
                 THEN Append(F[i-1], parts(i)[strip + 1])
                 ELSE F[i-1]
    IN F[Len(tf)]

rmtreeKeep(t) == [isdir |-> FALSE, files |-> t.files]

\* shutil.rmtree(self.build_path)
rmtree(t) == [isdir |-> FALSE, files |-> {}]

NoDir == [isdir |-> FALSE, files |-> {}]

\* Files external tools leave in the build tree.
PatchedFile == <<"patched">>
WheelDir == <<"wheel">>
DistInfo == <<"dist-info">>

----------------------------------------------------------------------------
\* Source file cache

Absent == [exists |-> FALSE, chunks |-> {}, writers |-> {}]

is_file(f) == f.exists

NeedsDownloadAlways(f) == TRUE

\* prepare(): if not self.source_file_path.is_file()
NeedsDownload(f) == ~is_file(f)

AllChunks == 1..Len(archive)

IsComplete(f) == f.exists /\ f.chunks = AllChunks

\* Members tarfile can list from the file on disk: those of the leading chunks.
FileMembers(f) ==
    LET k == CHOOSE n \in 0..Len(archive) :
                 /\ 1..n \subseteq f.chunks
                 /\ (n < Len(archive) => (n + 1) \notin f.chunks)
    IN SubSeq(archive, 1, k)

----------------------------------------------------------------------------
\* Stage sequencing

PipelineSwapped(variant) ==
    <<"fetch", "patch", "unpack", "prepared">> \o
    (CASE variant = "simple" -> <<"compile", "package">>
       [] variant = "cmake" -> <<>>
       [] variant = "python" -> <<"pybuild">>) \o
    <<"done">>

\* prepare() then build(), per variant.
Pipeline(variant) ==
    <<"fetch", "unpack", "patch", "prepared">> \o
    (CASE variant = "simple" -> <<"compile", "package">>
       [] variant = "cmake" -> <<>>
       [] variant = "python" -> <<"pybuild">>) \o
    <<"done">>

NextPc(variant, cur) ==
    LET p == Pipeline(variant)
        i == CHOOSE j \in 1..Len(p) : p[j] = cur
    IN p[i + 1]

\* cross_venv.run: exit code 0, or raises on a non-zero exit.
RunOutcomes == {TRUE, FALSE}

\* An exception raised in a stage propagates out of prepare()/build().
OnResult(ok, next) == IF ok THEN next ELSE "failed"

AfterPatchIgnoring(ok, i, n, next) == IF i + 1 < n THEN "patching" ELSE next

\* apply_patches(): the for loop over the patch files.
AfterPatch(ok, i, n, next) ==
    IF ~ok THEN "failed" ELSE IF i + 1 < n THEN "patching" ELSE next

PatchCall(ok) ==
    [tool |-> "patch", argv |-> <<"patch", "-p1", "-i", "patchfile">>,
     cwd |-> TRUE, env |-> FALSE, ok |-> ok]

CompileCallNoEnv(ok) ==
    [tool |-> "build.sh", argv |-> <<"build.sh">>,
     cwd |-> TRUE, env |-> FALSE, ok |-> ok]

CompileCall(ok) ==
    [tool |-> "build.sh", argv |-> <<"build.sh">>,
     cwd |-> TRUE, env |-> TRUE, ok |-> ok]

PackCall(ok) ==
    [tool |-> "wheel pack",
     argv |-> <<"build-python", "-m", "wheel", "pack", "wheel", "--dest-dir",
                "dist", "--build-number", "build_num">>,
     cwd |-> FALSE, env |-> FALSE, ok |-> ok]

PyBuildCall(ok) ==
    [tool |-> "python -m build",
     argv |-> <<"python", "-m", "build", "--no-isolation", "--wheel",
                "--outdir", "dist">>,
     cwd |-> TRUE, env |-> FALSE, ok |-> ok]

----------------------------------------------------------------------------
\* State access

Src(b) == source_file_path(cfg[b])
Bld(b) == build_path(cfg[b])
SrcFile(b) == srcFiles[Src(b)]
Tree(b) == trees[Bld(b)]

Log(b, stage) == stages' = [stages EXCEPT ![b] = Append(@, stage)]
Call(b, c) == calls' = [calls EXCEPT ![b] = Append(@, c)]
Goto(b, p) == pc' = [pc EXCEPT ![b] = p]
AddFiles(b, fs) ==
    trees' = [trees EXCEPT ![Bld(b)] = [isdir |-> TRUE, files |-> @.files \cup fs]]

Stopped(b) == pc[b] \in {"idle", "done", "failed"}

----------------------------------------------------------------------------
\* Actions

\* The orchestrator calls prepare(): both install_* hooks are no-ops.
\* serial: the caller runs one pipeline at a time.
Prepare(b, serial) ==
    /\ Stopped(b)
    /\ serial => \A o \in Builders : Stopped(o)
    /\ Goto(b, "fetch")
    /\ paths' = [paths EXCEPT ![b] = EvalPaths(cfg[b])]
    /\ stages' = [stages EXCEPT ![b] = <<>>]
    /\ calls' = [calls EXCEPT ![b] = <<>>]
    /\ cached' = [cached EXCEPT ![b] = FALSE]
    /\ removed' = [removed EXCEPT ![b] = FALSE]
    /\ off' = [off EXCEPT ![b] = 0]
    /\ idx' = [idx EXCEPT ![b] = 0]
    /\ UNCHANGED <<cfg, patches, archive, srcFiles, trees, dist>>

\* prepare(): the is_file() test that decides whether download_source() runs.
FetchCheck(b) ==
    /\ pc[b] = "fetch"
    /\ cached' = [cached EXCEPT ![b] = is_file(SrcFile(b))]
    /\ IF NeedsDownload(SrcFile(b))
       THEN Goto(b, "dl_connect") /\ Log(b, "download")
       ELSE Goto(b, NextPc(cfg[b].variant, "fetch")) /\ UNCHANGED stages
    /\ UNCHANGED <<cfg, patches, archive, paths, srcFiles, trees, dist, calls,
                   removed, off, idx>>

\* download_source(): the request (httpx.stream / the index lookup and sdists[0]).
DownloadConnect(b) ==
    /\ pc[b] = "dl_connect"
    /\ \E ok \in BOOLEAN : Goto(b, OnResult(ok, "dl_open"))
    /\ UNCHANGED <<cfg, patches, archive, paths, srcFiles, trees, dist, stages,
                   calls, cached, removed, off, idx>>

\* download_source(): open("wb") creates or truncates the file.
DownloadOpen(b) ==
    /\ pc[b] = "dl_open"
    /\ srcFiles' = [srcFiles EXCEPT ![Src(b)] =
                       [exists |-> TRUE, chunks |-> {},
                        writers |-> (IF @.exists THEN @.writers ELSE {}) \cup {b}]]
    /\ off' = [off EXCEPT ![b] = 0]
    /\ Goto(b, "dl_write")
    /\ UNCHANGED <<cfg, patches, archive, paths, trees, dist, stages, calls,
                   cached, removed, idx>>

\* download_source(): one iteration of the chunk loop, or a network error in it.
\* pypi_simple removes the file on an error; the direct-URL download leaves it.
DownloadChunk(b) ==
    /\ pc[b] = "dl_write"
    /\ off[b] < Len(archive)
    /\ \E ok \in BOOLEAN :
         IF ok
         THEN /\ srcFiles' = [srcFiles EXCEPT ![Src(b)] =
                     IF b \in @.writers
                     THEN [@ EXCEPT !.chunks = @ \cup {off[b] + 1}]
                     ELSE @]
              /\ off' = [off EXCEPT ![b] = @ + 1]
              /\ UNCHANGED pc
         ELSE /\ srcFiles' = [srcFiles EXCEPT ![Src(b)] =
                     IF b \notin @.writers THEN @
                     ELSE IF cfg[b].variant = "python" THEN Absent
                     ELSE [@ EXCEPT !.writers = @ \ {b}]]
              /\ Goto(b, "failed")
              /\ UNCHANGED off
    /\ UNCHANGED <<cfg, patches, archive, paths, trees, dist, stages, calls,
                   cached, removed, idx>>

\* download_source(): the response is exhausted and the file is closed.
DownloadClose(b) ==
    /\ pc[b] = "dl_write"
    /\ off[b] = Len(archive)
    /\ srcFiles' = [srcFiles EXCEPT ![Src(b)] = [@ EXCEPT !.writers = @ \ {b}]]
    /\ Goto(b, NextPc(cfg[b].variant, "fetch"))
    /\ UNCHANGED <<cfg, patches, archive, paths, trees, dist, stages, calls,
                   cached, removed, off, idx>>

\* unpack_source(): remove a pre-existing build directory.
UnpackRemove(b) ==
    /\ pc[b] = "unpack"
    /\ Log(b, "unpack")
    /\ removed' = [removed EXCEPT ![b] = Tree(b).isdir]
    /\ trees' = [trees EXCEPT ![Bld(b)] = IF @.isdir THEN rmtree(@) ELSE @]
    /\ Goto(b, "extract")
    /\ UNCHANGED <<cfg, patches, archive, paths, srcFiles, dist, calls, cached,
                   off, idx>>

\* unpack_source(): tarfile.open and extractall of the stripped members. A missing
\* file raises; an incomplete one raises or yields the members before the gap.
UnpackExtract(b) ==
    /\ pc[b] = "extract"
    /\ \E ok \in BOOLEAN :
         /\ ~ok => ~IsComplete(SrcFile(b))
         /\ ok => SrcFile(b).exists
         /\ IF ok
            THEN LET out == Range(members(FileMembers(SrcFile(b)), 1))
                 IN trees' = [trees EXCEPT ![Bld(b)] =
                        [isdir |-> @.isdir \/ out # {}, files |-> @.files \cup out]]
            ELSE UNCHANGED trees
         /\ Goto(b, OnResult(ok, NextPc(cfg[b].variant, "unpack")))
    /\ UNCHANGED <<cfg, patches, archive, paths, srcFiles, dist, stages, calls,
                   cached, removed, off, idx>>

\* apply_patches(): glob the patch files.
PatchBegin(b) ==
    /\ pc[b] = "patch"
    /\ Log(b, "patch")
    /\ idx' = [idx EXCEPT ![b] = 0]
    /\ Goto(b, IF patches = 0 THEN NextPc(cfg[b].variant, "patch") ELSE "patching")
    /\ UNCHANGED <<cfg, patches, archive, paths, srcFiles, trees, dist, calls,
                   cached, removed, off>>

\* apply_patches(): run the patch tool on the next patch file.
PatchStep(b) ==
    /\ pc[b] = "patching"
    /\ \E ok \in RunOutcomes :
         /\ Call(b, PatchCall(ok))
         /\ IF ok THEN AddFiles(b, {PatchedFile}) ELSE UNCHANGED trees
         /\ Goto(b, AfterPatch(ok, idx[b], patches, NextPc(cfg[b].variant, "patch")))
    /\ idx' = [idx EXCEPT ![b] = @ + 1]
    /\ UNCHANGED <<cfg, patches, archive, paths, srcFiles, dist, stages, cached,
                   removed, off>>

\* The orchestrator calls build() after prepare() returned.
Build(b) ==
    /\ pc[b] = "prepared"
    /\ Goto(b, NextPc(cfg[b].variant, "prepared"))
    /\ UNCHANGED <<cfg, patches, archive, paths, srcFiles, trees, dist, stages,
                   calls, cached, removed, off, idx>>

\* compile(): run build.sh; the script may or may not install under PREFIX.
Compile(b) ==
    /\ pc[b] = "compile"
    /\ Log(b, "compile")
    /\ \E ok \in RunOutcomes, prefix \in BOOLEAN :
         /\ ~ok => ~prefix
         /\ Call(b, CompileCall(ok))
         /\ IF prefix THEN AddFiles(b, {WheelDir}) ELSE UNCHANGED trees
         /\ Goto(b, OnResult(ok, NextPc(cfg[b].variant, "compile")))
    /\ UNCHANGED <<cfg, patches, archive, paths, srcFiles, dist, cached, removed,
                   off, idx>>

\* make_wheel(): info_path.mkdir() needs the wheel directory and no dist-info;
\* then the metadata files are written and the wheel is packed.
MakeWheel(b) ==
    /\ pc[b] = "package"
    /\ Log(b, "package")
    /\ IF WheelDir \notin Tree(b).files \/ DistInfo \in Tree(b).files
       THEN Goto(b, "failed") /\ UNCHANGED <<trees, calls, dist>>
       ELSE /\ AddFiles(b, {DistInfo})
            /\ \E ok \in RunOutcomes :
                 /\ Call(b, PackCall(ok))
                 /\ dist' = IF ok THEN dist \cup {cfg[b].tag} ELSE dist
                 /\ Goto(b, OnResult(ok, NextPc(cfg[b].variant, "package")))
    /\ UNCHANGED <<cfg, patches, archive, paths, srcFiles, cached, removed, off, idx>>

\* PythonPackageBuilder.build(): python -m build in the build tree.
PyBuild(b) ==
    /\ pc[b] = "pybuild"
    /\ Log(b, "pybuild")
    /\ \E ok \in RunOutcomes :
         /\ Call(b, PyBuildCall(ok))
         /\ dist' = IF ok THEN dist \cup {cfg[b].tag} ELSE dist
         /\ Goto(b, OnResult(ok, NextPc(cfg[b].variant, "pybuild")))
    /\ UNCHANGED <<cfg, patches, archive, paths, srcFiles, trees, cached, removed,
                   off, idx>>

\* Evaluation of the two path properties of a builder.
Evaluate(b) ==
    /\ paths[b] = NoPaths
    /\ paths' = [paths EXCEPT ![b] = EvalPaths(cfg[b])]
    /\ UNCHANGED <<cfg, patches, archive, srcFiles, trees, dist, pc, stages, calls,
                   cached, removed, off, idx>>

----------------------------------------------------------------------------
\* Specifications

\* The package every pipeline of the main specifications builds.
PkgName == <<"f", "o", "o">>
PkgVersion == <<"1">>
PkgUrl == <<"h", "/", "f", "o", "o">>
Upstream == << <<"s">>, <<"s", "/", "a">>, <<"s", "/", "b">> >>

Fresh(c) ==
    /\ cfg = c
    /\ paths = [b \in Builders |-> NoPaths]
    /\ srcFiles = [p \in {source_file_path(c[b]) : b \in Builders} |-> Absent]
    /\ trees = [p \in {build_path(c[b]) : b \in Builders} |-> NoDir]
    /\ dist = {}
    /\ pc = [b \in Builders |-> "idle"]
    /\ stages = [b \in Builders |-> <<>>]
    /\ calls = [b \in Builders |-> <<>>]
    /\ cached = [b \in Builders |-> FALSE]
    /\ removed = [b \in Builders |-> FALSE]
    /\ off = [b \in Builders |-> 0]
    /\ idx = [b \in Builders |-> 0]

\* Two builders of one package (one recipe, hence one variant) on two targets.
Init ==
    /\ patches \in 0..MaxPatches
    /\ archive = Upstream
    /\ \E v \in Variants :
         Fresh([b \in Builders |->
                  [variant |-> v, name |-> PkgName, version |-> PkgVersion,
                   url |-> PkgUrl, tag |-> TagOf[b]]])

Step(b) ==
    \/ FetchCheck(b)
    \/ DownloadConnect(b)
    \/ DownloadOpen(b)
    \/ DownloadChunk(b)
    \/ DownloadClose(b)
    \/ UnpackRemove(b)
    \/ UnpackExtract(b)
    \/ PatchBegin(b)
    \/ PatchStep(b)
    \/ Build(b)
    \/ Compile(b)
    \/ MakeWheel(b)
    \/ PyBuild(b)

\* Pipelines run one after another (the caller serializes them).
Next == \E b \in Builders : Prepare(b, TRUE) \/ Step(b)

Spec == Init /\ [][Next]_vars

\* Pipelines run concurrently, as an external orchestrator may run them.
NextConc == \E b \in Builders : Prepare(b, FALSE) \/ Step(b)

SpecConc == Init /\ [][NextConc]_vars

----------------------------------------------------------------------------
\* Path properties over a range of package records

PkgChars == {"1", "-"}
UrlSegs == {"p", "v"}
PathChars == {"a", "/"}

\* Project names and versions: digits and dashes, no dash at either end.
PkgStrings ==
    {s \in Seqs(PkgChars, MaxNameLen) : s # <<>> /\ s[1] # "-" /\ s[Len(s)] # "-"}

RECURSIVE JoinSlash(_)
JoinSlash(segs) ==
    IF Len(segs) = 1 THEN <<segs[1]>>
    ELSE <<segs[1], "/">> \o JoinSlash(Tail(segs))

Urls == {JoinSlash(s) : s \in Seqs(UrlSegs, MaxUrlSegs) \ {<<>>}}

\* Two builders of one variant; the recipe store holds one record per
\* (name, version), and each package has a source URL of its own.
InitPaths ==
    /\ patches = 0
    /\ archive = Upstream
    /\ \E v \in Variants, n1 \in PkgStrings, n2 \in PkgStrings,
          v1 \in PkgStrings, v2 \in PkgStrings, u1 \in Urls, u2 \in Urls,
          t1 \in Tags, t2 \in Tags :
         /\ (n1 = n2 /\ v1 = v2) <=> u1 = u2
         /\ Fresh(<<[variant |-> v, name |-> n1, version |-> v1, url |-> u1, tag |-> t1],
                    [variant |-> v, name |-> n2, version |-> v2, url |-> u2, tag |-> t2]>>)

NextPaths == \E b \in Builders : Evaluate(b)

SpecPaths == InitPaths /\ [][NextPaths]_vars

\* unpack_source() over a range of archives: builder 1 has found the archive
\* cached and is about to unpack it, over no build directory or a used one.
MemberPaths == Seqs(PathChars, MaxLen) \ {<<>>}

InitUnpack ==
    /\ patches = 0
    /\ archive \in Seqs(MemberPaths, MaxMembers)
    /\ \E v \in Variants, stale \in BOOLEAN :
         LET c == [b \in Builders |->
                     [variant |-> v, name |-> PkgName, version |-> PkgVersion,
                      url |-> PkgUrl, tag |-> TagOf[b]]]
         IN /\ cfg = c
            /\ paths = [b \in Builders |-> IF b = 1 THEN EvalPaths(c[b]) ELSE NoPaths]
            /\ srcFiles = [p \in {source_file_path(c[b]) : b \in Builders} |->
                             [exists |-> TRUE, chunks |-> 1..Len(archive), writers |-> {}]]
            /\ trees = [p \in {build_path(c[b]) : b \in Builders} |->
                          IF stale /\ p = build_path(c[1])
                          THEN [isdir |-> TRUE, files |-> {PatchedFile, WheelDir}]
                          ELSE NoDir]
    /\ dist = {}
    /\ pc = [b \in Builders |-> IF b = 1 THEN "unpack" ELSE "idle"]
    /\ stages = [b \in Builders |-> <<>>]
    /\ calls = [b \in Builders |-> <<>>]
    /\ cached = [b \in Builders |-> b = 1]
    /\ removed = [b \in Builders |-> FALSE]
    /\ off = [b \in Builders |-> 0]
    /\ idx = [b \in Builders |-> 0]

NextUnpack == \E b \in Builders : UnpackRemove(b) \/ UnpackExtract(b)

SpecUnpack == InitUnpack /\ [][NextUnpack]_vars

----------------------------------------------------------------------------
\* Properties

Rank(stage) ==
    CASE stage = "download" -> 1
      [] stage = "unpack" -> 2
      [] stage = "patch" -> 3
      [] stage = "compile" -> 4
      [] stage = "pybuild" -> 4
      [] stage = "package" -> 5

Last(s) == s[Len(s)]

\* The stage a builder is in the middle of.
InStage(b, stage) == stages[b] # <<>> /\ Last(stages[b]) = stage

\* C1: in every run of prepare() then build(), of every variant, the stages run
\* in the order download, unpack, patch, compile (or the wheel build), package:
\* each stage at most once, never an earlier one after a later one, and a builder
\* that is inside a stage is inside the last stage it started.
StagesInFixedOrder ==
    \A b \in Builders :
        /\ \A i, j \in 1..Len(stages[b]) :
               i < j => Rank(stages[b][i]) < Rank(stages[b][j])
        /\ pc[b] \in {"dl_connect", "dl_open", "dl_write"} => InStage(b, "download")
        /\ pc[b] = "extract" => InStage(b, "unpack")
        /\ pc[b] = "patching" => InStage(b, "patch")
        /\ pc[b] = "prepared" => InStage(b, "patch")
        /\ pc[b] = "done" /\ cfg[b].variant = "simple" => InStage(b, "package")

FullRunDone ==
    \E b \in Builders :
        /\ pc[b] = "done"
        /\ stages[b] = <<"download", "unpack", "patch", "compile", "package">>

\* C2: download_source() is invoked exactly when is_file() was false at the fetch
\* stage; skipped or not, unpack_source() and then apply_patches() are invoked: a
\* prepare() that returned has run both, in that order, and the only run in which
\* unpack_source() is not invoked is one whose download failed.
FetchIffNotCached ==
    \A b \in Builders :
        /\ pc[b] \notin {"idle", "fetch"} =>
               (("download" \in Range(stages[b])) <=> ~cached[b])
        /\ pc[b] \in {"prepared", "compile", "package", "pybuild", "done"} =>
               \E i, j \in 1..Len(stages[b]) :
                   i < j /\ stages[b][i] = "unpack" /\ stages[b][j] = "patch"
        /\ (pc[b] = "failed" /\ "unpack" \notin Range(stages[b])) =>
               stages[b] = <<"download">>

FetchSkippedPrepared ==
    \E b \in Builders :
        pc[b] = "prepared" /\ cached[b] /\ stages[b] = <<"unpack", "patch">>

\* C3: a failure aborts the pipeline: a failed external command is the last one of
\* its run and leaves the builder failed; a failed patch leaves the remaining patch
\* files unapplied and compile() uninvoked; a failed builder invokes no further
\* stage or command until the caller starts a new run.
FailureAborts ==
    /\ [](\A b \in Builders : \A i \in 1..Len(calls[b]) :
            ~calls[b][i].ok =>
                /\ i = Len(calls[b])
                /\ pc[b] = "failed"
                /\ calls[b][i].tool = "patch" => "compile" \notin Range(stages[b]))
    /\ [][\A b \in Builders :
            pc[b] = "failed" =>
                \/ pc'[b] = "failed" /\ stages'[b] = stages[b] /\ calls'[b] = calls[b]
                \/ pc'[b] = "fetch" /\ stages'[b] = <<>> /\ calls'[b] = <<>>]_vars

FirstPatchFailed ==
    \E b \in Builders :
        /\ patches = 2
        /\ pc[b] = "failed"
        /\ Len(calls[b]) = 1
        /\ calls[b][1].tool = "patch" /\ ~calls[b][1].ok

KeyOf(c) == <<c.name, c.version, c.tag>>

\* C4: two builders of one variant have the same build_path exactly when they have
\* the same package name, version and target tag.
BuildPathUniquePerTarget ==
    \A b1, b2 \in Builders :
        (paths[b1] # NoPaths /\ paths[b2] # NoPaths) =>
            ((paths[b1].build = paths[b2].build) <=> (KeyOf(cfg[b1]) = KeyOf(cfg[b2])))

\* C5: two concurrent pipelines of one package on two targets never both have the
\* source file open for writing, and neither is inside unpack_source() while the
\* other still writes the file.
NoDownloadCollision ==
    \A b1, b2 \in Builders :
        b1 # b2 =>
            /\ ~(pc[b1] = "dl_write" /\ pc[b2] = "dl_write")
            /\ ~(pc[b1] = "extract" /\ pc[b2] = "dl_write")

\* The member path after its first "/", as a set: empty when there is no "/".
Remainder(p) ==
    {SubSeq(p, k + 1, Len(p)) :
        k \in {n \in 1..Len(p) : p[n] = "/" /\ \A j \in 1..(n - 1) : p[j] # "/"}}

\* C6: with strip = 1, unpack_source() writes, for each member with a "/" in its
\* path, the path after the first "/", drops every member without one, and writes
\* nothing else.
StripOneComponent ==
    pc[1] = "patch" =>
        trees[build_path(cfg[1])].files = UNION {Remainder(p) : p \in Range(archive)}

StrippedAndDropped ==
    /\ pc[1] = "patch"
    /\ \E i, j \in 1..Len(archive) :
           /\ Find(archive[i], "/") = 0
           /\ Len(archive[j]) = 3 /\ archive[j][2] = "/"
    /\ Cardinality(trees[build_path(cfg[1])].files) = 1

\* C7: when unpack_source() has completed, the build directory holds exactly the
\* stripped members of the archive on disk: nothing a previous unpack, patch,
\* compile or packaging step left there survives.
UnpackLeavesOnlyArchive ==
    \A b \in Builders :
        pc[b] = "patch" =>
            Tree(b).files = UNION {Remainder(p) : p \in Range(FileMembers(SrcFile(b)))}

UnpackedOverUsedTree ==
    \E b \in Builders :
        /\ pc[b] = "patch"
        /\ removed[b]
        /\ dist # {}
        /\ Tree(b).files # {}

AllCalls == UNION {Range(calls[b]) : b \in Builders}

\* C8 (as stated): every external command gets an argument vector, a working
\* directory and an environment mapping.
EveryCallFullyExplicit ==
    \A c \in AllCalls : c.argv # <<>> /\ c.cwd /\ c.env

\* C8 (amended): every external command gets an argument vector; all but the
\* wheel-pack tool get a working directory; only the build script gets an
\* environment mapping.
CallsExplicitAsCoded ==
    \A c \in AllCalls :
        /\ c.argv # <<>>
        /\ c.cwd <=> c.tool # "wheel pack"
        /\ c.env <=> c.tool = "build.sh"

AllToolsCalled ==
    \E b \in Builders :
        /\ pc[b] = "done"
        /\ {c.tool : c \in Range(calls[b])} = {"patch", "build.sh", "wheel pack"}

\* C9: two builders of one variant have the same source_file_path exactly when
\* their package records have the same name and version, whatever the tags.
SourcePathUniquePerPackage ==
    \A b1, b2 \in Builders :
        (paths[b1] # NoPaths /\ paths[b2] # NoPaths) =>
            ((paths[b1].src = paths[b2].src) <=>
                 (cfg[b1].name = cfg[b2].name /\ cfg[b1].version = cfg[b2].version))

\* C10: prepare() skips the fetch stage, and unpacks, only a file that a
\* download_source() completed: never the remains of a failed download.
CachedFileIsComplete ==
    \A b \in Builders :
        (pc[b] \in {"unpack", "extract"} /\ cached[b]) => IsComplete(SrcFile(b))

====
